---- MODULE Spec2Model ----
(***************************************************************************)
(* The alpha-beta O(N^3) Hungarian algorithm of hungarian.cpp and of its   *)
(* two earlier formulations (unnamed/part_001: search loop bounded by      *)
(* `for i < N`, cost printed from the matched costs; unnamed/part_002:     *)
(* `while(true)` search that augments inside search()).                    *)
(*                                                                         *)
(* One behaviour is one run of one of the three programs on one input.     *)
(* Rows and columns are numbered 0..N-1 as in the source; vectors are      *)
(* functions on 0..N-1.                                                    *)
(***************************************************************************)
EXTENDS Integers, Sequences, FiniteSets, TLC

\* ---------------------------------------------------------------- bounds
\* Inputs of size n in 0..MaxN with entries 0..MaxCost are enumerated as
\* long as n plus the total of the entries is at most MaxWeight; the
\* textbook instance is read besides them.
MaxN == 3
MaxCost == 2
MaxWeight == 7

\* ------------------------------------------------------------- constants
\* numeric_limits<ll>::max(): the sentinel "no slack known yet".  Only its
\* order relative to the values the run computes matters; it is the largest
\* integer of the model checker.
LLMax == 2147483647

\* The instance of the header comment (section 11.2 of Papadimitriou and
\* Steiglitz), 1-indexed here as a tuple of tuples.
TextbookN == 5
Textbook ==
  << <<7, 2, 1, 9, 4>>,
     <<9, 6, 9, 5, 5>>,
     <<3, 8, 3, 1, 8>>,
     <<7, 9, 4, 2, 2>>,
     <<8, 4, 7, 4, 8>> >>

\* The three programs of the repository.
Variants == {"hungarian", "part_001", "part_002"}

VARIABLES
  variant,      \* which program runs
  pc,           \* position in the program
  N,            \* int N
  input,        \* the numbers read from cin, before doubling
  c,            \* vector<vector<ll>> c (doubled costs)
  min_col,      \* vector<ll> min_col
  rv, ru,       \* loop variables v,u of the input loop
  mate_V, mate_U, nhbor, parent,
  alpha, beta, slack,
  label_V, label_U,
  i,            \* phase counter (i in hungarian_algorithm, s in part_001)
  iter,         \* iterations of the search loop completed in this phase
  theta,        \* ll theta of the current search iteration
  admissibles,  \* vector<int> admissibles of the current search iteration
  av, aexp,     \* arguments (v, exposed_u) of the active augment() frame
  out           \* what main printed

vars == << variant, pc, N, input, c, min_col, rv, ru, mate_V, mate_U, nhbor,
           parent, alpha, beta, slack, label_V, label_U, i, iter, theta,
           admissibles, av, aexp, out >>

\* ---------------------------------------------------------------- helpers
Idx(n) == 0 .. (n - 1)

\* std::min
Min(a, b) == IF b < a THEN b ELSE a

\* C++ integer division by a positive divisor: truncation toward zero.
CDiv(a, b) == IF a >= 0 THEN a \div b ELSE -((-a) \div b)

\* f[0] + ... + f[n-1]
RECURSIVE SumTo(_, _)
SumTo(f, n) == IF n <= 0 THEN 0 ELSE f[n - 1] + SumTo(f, n - 1)

\* Total of the matrix m with n rows and n columns.
MatrixSum(m, n) == SumTo([v \in Idx(n) |-> SumTo(m[v], n)], n)

\* The variables the algorithm works on, as one record, so that the
\* functions of the source can be written as operators from state to state.
St ==
  [ N |-> N, c |-> c, mate_V |-> mate_V, mate_U |-> mate_U, nhbor |-> nhbor,
    parent |-> parent, alpha |-> alpha, beta |-> beta, slack |-> slack,
    label_V |-> label_V, label_U |-> label_U, theta |-> theta ]

unlabelled_U(s, u) == ~ s.label_U[u]
unmatched_V(s, v) == s.mate_V[v] = -1
unmatched_U(s, u) == s.mate_U[u] = -1
admissible_U(s, u) == s.slack[u] = 0

\* ll bound = c[v][u]-alpha[v]-beta[u]
Bound(s, v, u) == s.c[v][u] - s.alpha[v] - s.beta[u]

\* Slip: nhbor[u] = v is outside the `if` on bound, so it is written for
\* every unlabelled column.
update_slack_nhbor_always(s, v) ==
  LET hit(u) == /\ unlabelled_U(s, u)
                /\ 0 <= Bound(s, v, u)
                /\ Bound(s, v, u) < s.slack[u]
  IN [s EXCEPT
        !.slack = [u \in Idx(s.N) |-> IF hit(u) THEN Bound(s, v, u) ELSE s.slack[u]],
        !.nhbor = [u \in Idx(s.N) |-> IF unlabelled_U(s, u) THEN v ELSE s.nhbor[u]]]

\* Slip: nhbor[u] = v is missing.
update_slack_no_nhbor(s, v) ==
  LET hit(u) == /\ unlabelled_U(s, u)
                /\ 0 <= Bound(s, v, u)
                /\ Bound(s, v, u) < s.slack[u]
  IN [s EXCEPT
        !.slack = [u \in Idx(s.N) |-> IF hit(u) THEN Bound(s, v, u) ELSE s.slack[u]]]

\* update_slack(v).  Iteration u of its loop reads and writes slack[u] and
\* nhbor[u] only, so the loop is the pointwise update below.
update_slack(s, v) ==
  LET hit(u) == /\ unlabelled_U(s, u)
                /\ 0 <= Bound(s, v, u)
                /\ Bound(s, v, u) < s.slack[u]
  IN [s EXCEPT
        !.slack = [u \in Idx(s.N) |-> IF hit(u) THEN Bound(s, v, u) ELSE s.slack[u]],
        !.nhbor = [u \in Idx(s.N) |-> IF hit(u) THEN v ELSE s.nhbor[u]]]

\* The first loop of update_alpha_beta: theta = min of slack[u] over the
\* unlabelled u, starting from the sentinel; t is theta before column u.
RECURSIVE MinSlack(_, _, _)
MinSlack(s, u, t) ==
  IF u >= s.N THEN t
  ELSE MinSlack(s, u + 1, IF unlabelled_U(s, u) THEN Min(t, s.slack[u]) ELSE t)

\* Slip: the `else alpha[i] -= theta` branch is missing.
ShiftAlpha_no_else(s, th) ==
  [k \in Idx(s.N) |-> IF s.label_V[k] THEN s.alpha[k] + th ELSE s.alpha[k]]

\* Slip: the two branches of the alpha update are swapped.
ShiftAlpha_swapped(s, th) ==
  [k \in Idx(s.N) |-> IF s.label_V[k] THEN s.alpha[k] - th ELSE s.alpha[k] + th]

\* Slip: the two branches of the beta update are swapped.
ShiftBeta_swapped(s, th) ==
  [k \in Idx(s.N) |-> IF s.label_U[k] THEN s.beta[k] + th ELSE s.beta[k] - th]

\* The second loop of update_alpha_beta: the shift of the potentials by th.
ShiftAlpha(s, th) ==
  [k \in Idx(s.N) |-> IF s.label_V[k] THEN s.alpha[k] + th ELSE s.alpha[k] - th]

ShiftBeta(s, th) ==
  [k \in Idx(s.N) |-> IF s.label_U[k] THEN s.beta[k] - th ELSE s.beta[k] + th]

\* update_alpha_beta() of hungarian.cpp and part_002: theta is tested, then
\* halved; the value returned is kept in the field theta.
update_alpha_beta(s) ==
  LET t == MinSlack(s, 0, LLMax)
      h == CDiv(t, 2)
  IN IF t > 0
       THEN [s EXCEPT !.theta = h, !.alpha = ShiftAlpha(s, h), !.beta = ShiftBeta(s, h)]
       ELSE [s EXCEPT !.theta = t]

\* Slip: `theta /= 2` is missing in part_001.
update_alpha_beta_001_no_halve(s) ==
  LET t == MinSlack(s, 0, LLMax)
  IN IF t > 0
       THEN [s EXCEPT !.theta = t, !.alpha = ShiftAlpha(s, t), !.beta = ShiftBeta(s, t)]
       ELSE [s EXCEPT !.theta = t]

\* The same step as written in search() of part_001: theta is halved, then
\* tested.
update_alpha_beta_001(s) ==
  LET t == MinSlack(s, 0, LLMax)
      h == CDiv(t, 2)
  IN IF h > 0
       THEN [s EXCEPT !.theta = h, !.alpha = ShiftAlpha(s, h), !.beta = ShiftBeta(s, h)]
       ELSE [s EXCEPT !.theta = h]

\* Slip: `else admissibles.push_back( u )` is missing.
RECURSIVE scan_no_push(_, _, _)
scan_no_push(s, u, adm) ==
  IF u >= s.N THEN [slack |-> s.slack, admissibles |-> adm, found |-> -1]
  ELSE IF ~ unlabelled_U(s, u) THEN scan_no_push(s, u + 1, adm)
  ELSE LET s1 == [s EXCEPT !.slack[u] = @ - 2 * s.theta]
       IN IF admissible_U(s1, u) /\ unmatched_U(s1, u)
            THEN [slack |-> s1.slack, admissibles |-> adm, found |-> u]
            ELSE scan_no_push(s1, u + 1, adm)

\* Slip: an unmatched column is returned whether admissible or not.
RECURSIVE scan_exposed_first(_, _, _)
scan_exposed_first(s, u, adm) ==
  IF u >= s.N THEN [slack |-> s.slack, admissibles |-> adm, found |-> -1]
  ELSE IF ~ unlabelled_U(s, u) THEN scan_exposed_first(s, u + 1, adm)
  ELSE LET s1 == [s EXCEPT !.slack[u] = @ - 2 * s.theta]
       IN IF unmatched_U(s1, u)
            THEN [slack |-> s1.slack, admissibles |-> adm, found |-> u]
            ELSE IF admissible_U(s1, u)
                   THEN scan_exposed_first(s1, u + 1, Append(adm, u))
                   ELSE scan_exposed_first(s1, u + 1, adm)

\* The scan of the unlabelled columns in the search loop, from column u on,
\* with adm the admissibles collected so far.  It stops at the first
\* unlabelled, admissible, unmatched column (found); the slacks of the
\* columns after it are not decremented.
RECURSIVE scan(_, _, _)
scan(s, u, adm) ==
  IF u >= s.N THEN [slack |-> s.slack, admissibles |-> adm, found |-> -1]
  ELSE IF ~ unlabelled_U(s, u) THEN scan(s, u + 1, adm)
  ELSE LET s1 == [s EXCEPT !.slack[u] = @ - 2 * s.theta]
       IN IF admissible_U(s1, u)
            THEN IF unmatched_U(s1, u)
                   THEN [slack |-> s1.slack, admissibles |-> adm, found |-> u]
                   ELSE scan(s1, u + 1, Append(adm, u))
            ELSE scan(s1, u + 1, adm)

\* Slip: parent[mate_U[u]] = nhbor[u] is missing.
label_admissible_no_parent(s, u) ==
  LET v == s.mate_U[u]
  IN update_slack([s EXCEPT !.label_U[u] = TRUE, !.label_V[v] = TRUE], v)

\* Slip: update_slack( mate_U[u] ) is missing.
label_admissible_no_update(s, u) ==
  LET v == s.mate_U[u]
  IN [s EXCEPT !.label_U[u] = TRUE,
               !.label_V[v] = TRUE,
               !.parent[v] = s.nhbor[u]]

\* Slip: label_V[ mate_U[u] ] = true is missing.
label_admissible_no_label_V(s, u) ==
  LET v == s.mate_U[u]
  IN update_slack([s EXCEPT !.label_U[u] = TRUE,
                            !.parent[v] = s.nhbor[u]], v)

\* One iteration of `for ( int u: admissibles )`.
label_admissible(s, u) ==
  LET v == s.mate_U[u]
  IN update_slack([s EXCEPT !.label_U[u] = TRUE,
                            !.label_V[v] = TRUE,
                            !.parent[v] = s.nhbor[u]], v)

\* Slip: mate_U[exposed_u] = v is missing.
augment_mate_U_missing(s, v, exposed_u) == s.mate_U

\* Slip: aux is read after mate_V[v] was overwritten.
augment_aux_late(s, v, exposed_u) == exposed_u

\* The two assignments of augment(v, exposed_u).
augment_mate_V(s, v, exposed_u) == [s.mate_V EXCEPT ![v] = exposed_u]

augment_mate_U(s, v, exposed_u) == [s.mate_U EXCEPT ![exposed_u] = v]

\* int aux = mate_V[v], read before the two assignments: the column the
\* recursive call augment(parent[v], aux) gets as exposed.
augment_aux(s, v, exposed_u) == s.mate_V[v]

\* Slip: `i <= N` for `i < N`.
phase_cond_le(k, n) == k <= n

\* The loop condition of the phases.
phase_cond(k, n) == k < n

\* Slip: opt_cost += alpha[i] without beta[i].
dual_cost_alpha_only(s) == SumTo([k \in Idx(s.N) |-> s.alpha[k]], s.N)

\* opt_cost of hungarian.cpp and part_002: the sum of alpha[i]+beta[i].
dual_cost(s) == SumTo([k \in Idx(s.N) |-> s.alpha[k] + s.beta[k]], s.N)

\* min_cost of part_001: the sum of c[v][mate_V[v]].
matched_cost(s) == SumTo([v \in Idx(s.N) |-> s.c[v][s.mate_V[v]]], s.N)

\* Slip: min_col[u] = c[v][u] without the min.
new_min_col_last(old, cvu) == cvu

\* Slip: max where min is meant.
new_min_col_max(old, cvu) == IF old > cvu THEN old ELSE cvu

\* Slip: the cost is stored as read, not doubled.
doubled_not(x) == x

\* c[v][u] *= 2: the cost is stored doubled.
doubled(x) == 2 * x

\* min_col[u] = min( min_col[u], c[v][u] )
new_min_col(old, cvu) == Min(old, cvu)

\* The sizes and the entries the input may have.  Sizes up to MaxN come with
\* any entries within the bounds; size TextbookN is the textbook instance.
Sizes == (0 .. MaxN) \cup {TextbookN}

Entries(n, v, u, sofar) ==
  IF n = TextbookN
    THEN {Textbook[v + 1][u + 1]}
    ELSE {x \in 0 .. MaxCost : n + sofar + x <= MaxWeight}

\* initialize_alpha_beta(): nothing is matched, alpha is 0 and beta the
\* column minima mc.
initialize_alpha_beta(s, mc) ==
  [s EXCEPT !.mate_V = [v \in Idx(s.N) |-> -1],
            !.mate_U = [u \in Idx(s.N) |-> -1],
            !.alpha = [v \in Idx(s.N) |-> 0],
            !.beta = [u \in Idx(s.N) |-> mc[u]]]

\* initialize_search().
initialize_search(s) ==
  [s EXCEPT !.nhbor = [u \in Idx(s.N) |-> -1],
            !.parent = [v \in Idx(s.N) |-> -1],
            !.slack = [u \in Idx(s.N) |-> LLMax],
            !.label_V = [v \in Idx(s.N) |-> FALSE],
            !.label_U = [u \in Idx(s.N) |-> FALSE]]

\* ------------------------------------------------------------------ Init
\* The globals as the program starts: N is 0 and every vector is empty.
Init ==
  /\ variant \in Variants
  /\ pc = "main"
  /\ N = 0
  /\ input = << >>
  /\ c = << >>
  /\ min_col = << >>
  /\ rv = 0 /\ ru = 0
  /\ mate_V = << >> /\ mate_U = << >> /\ nhbor = << >> /\ parent = << >>
  /\ alpha = << >> /\ beta = << >> /\ slack = << >>
  /\ label_V = << >> /\ label_U = << >>
  /\ i = 0 /\ iter = 0 /\ theta = 0
  /\ admissibles = << >>
  /\ av = -1 /\ aexp = -1
  /\ out = [mode |-> "none", value |-> 0]

\* --------------------------------------------------------------- actions
\* read_input, up to the loop: cin >> N and the two allocations.
ReadN ==
  /\ pc = "main"
  /\ \E n \in Sizes :
       /\ N' = n
       /\ input' = [v \in Idx(n) |-> [u \in Idx(n) |-> 0]]
       /\ c' = [v \in Idx(n) |-> [u \in Idx(n) |-> 0]]
       /\ min_col' = [u \in Idx(n) |-> LLMax]
       /\ pc' = IF n > 0 THEN "read_input" ELSE "initialize_alpha_beta"
  /\ UNCHANGED << variant, rv, ru, mate_V, mate_U, nhbor, parent, alpha, beta,
                  slack, label_V, label_U, i, iter, theta, admissibles,
                  av, aexp, out >>

\* One iteration of the input loop: cin >> c[v][u], the doubling, min_col.
ReadEntry ==
  /\ pc = "read_input"
  /\ \E x \in Entries(N, rv, ru, MatrixSum(input, N)) :
       /\ input' = [input EXCEPT ![rv][ru] = x]
       /\ c' = [c EXCEPT ![rv][ru] = doubled(x)]
       /\ min_col' = [min_col EXCEPT ![ru] = new_min_col(@, doubled(x))]
  /\ IF ru + 1 < N
       THEN /\ ru' = ru + 1 /\ rv' = rv /\ pc' = pc
       ELSE IF rv + 1 < N
         THEN /\ ru' = 0 /\ rv' = rv + 1 /\ pc' = pc
         ELSE /\ ru' = 0 /\ rv' = 0 /\ pc' = "initialize_alpha_beta"
  /\ UNCHANGED << variant, N, mate_V, mate_U, nhbor, parent, alpha, beta,
                  slack, label_V, label_U, i, iter, theta, admissibles,
                  av, aexp, out >>

\* initialize_alpha_beta() (in main of part_001).
InitializeAlphaBeta ==
  /\ pc = "initialize_alpha_beta"
  /\ LET s == initialize_alpha_beta(St, min_col)
     IN /\ mate_V' = s.mate_V
        /\ mate_U' = s.mate_U
        /\ alpha' = s.alpha
        /\ beta' = s.beta
  /\ i' = 0
  /\ pc' = "phase_loop"
  /\ UNCHANGED << variant, N, input, c, min_col, rv, ru, nhbor, parent, slack,
                  label_V, label_U, iter, theta, admissibles, av, aexp, out >>

\* The head of the phase loop: either initialize_search() and on to the
\* seeding, or the end of hungarian_algorithm().
PhaseLoop ==
  /\ pc = "phase_loop"
  /\ IF phase_cond(i, N)
       THEN /\ LET s == initialize_search(St)
               IN /\ nhbor' = s.nhbor
                  /\ parent' = s.parent
                  /\ slack' = s.slack
                  /\ label_V' = s.label_V
                  /\ label_U' = s.label_U
            /\ pc' = "seed"
       ELSE /\ pc' = "output"
            /\ UNCHANGED << nhbor, parent, slack, label_V, label_U >>
  /\ UNCHANGED << variant, N, input, c, min_col, rv, ru, mate_V, mate_U, alpha,
                  beta, i, iter, theta, admissibles, av, aexp, out >>

\* Slip: update_slack(v) is missing from the seeding loop.
RECURSIVE seed_no_update(_, _)
seed_no_update(s, v) ==
  IF v >= s.N THEN s
  ELSE seed_no_update(IF unmatched_V(s, v)
                        THEN [s EXCEPT !.label_V[v] = TRUE]
                        ELSE s, v + 1)

\* The seeding loop `for v: if unmatched_V(v) { label_V[v] = true;
\* update_slack(v); }`, from row v on.
RECURSIVE seed(_, _)
seed(s, v) ==
  IF v >= s.N THEN s
  ELSE seed(IF unmatched_V(s, v)
              THEN update_slack([s EXCEPT !.label_V[v] = TRUE], v)
              ELSE s, v + 1)

\* augment(v, exposed_u) with its recursive calls, as one function of the
\* state.  A call with an index outside 0..N-1 is undefined and `fuel`
\* bounds the recursion on a parent cycle; the action Augment is the
\* authority on both, and here they leave the state as it is.
RECURSIVE augment(_, _, _, _)
augment(s, v, exposed_u, fuel) ==
  IF fuel <= 0 \/ v \notin Idx(s.N) \/ exposed_u \notin Idx(s.N) THEN s
  ELSE LET t == [s EXCEPT !.mate_V = augment_mate_V(s, v, exposed_u),
                          !.mate_U = augment_mate_U(s, v, exposed_u)]
       IN IF s.parent[v] # -1
            THEN augment(t, s.parent[v], augment_aux(s, v, exposed_u), fuel - 1)
            ELSE t

\* The loop `for ( int u: admissibles )`.
RECURSIVE label_all(_, _)
label_all(s, adm) ==
  IF adm = << >> THEN s
  ELSE label_all(label_admissible(s, Head(adm)), Tail(adm))

\* The search loop of variant w from its iteration number it on, with the
\* augmentation that follows it: `for ( i < N )` in part_001, `while(true)`
\* in part_002 and hungarian.cpp (cut off here after N+1 iterations; the
\* action Search is the authority on a loop that would go on).
RECURSIVE search(_, _, _)
search(w, s, it) ==
  IF it > s.N \/ (w = "part_001" /\ ~ (it < s.N)) THEN s
  ELSE LET d == IF w = "part_001" THEN update_alpha_beta_001(s)
                                  ELSE update_alpha_beta(s)
           r == scan(d, 0, << >>)
           t == [d EXCEPT !.slack = r.slack]
       IN IF r.found # -1
            THEN augment(t, t.nhbor[r.found], r.found, s.N)
            ELSE search(w, label_all(t, r.admissibles), it + 1)

\* One phase of variant w: the body of the phase loop.
phase(w, s) == search(w, seed(initialize_search(s), 0), 0)

\* The state of variant w after its first k phases, from the state s that
\* initialize_alpha_beta() leaves.
RECURSIVE phases(_, _, _)
phases(w, s, k) == IF k <= 0 THEN s ELSE phase(w, phases(w, s, k - 1))

\* The cost variant w prints from the state s: from the matched entries in
\* part_001, from the potentials in the other two.
printed_cost(w, s) ==
  IF w = "part_001" THEN CDiv(matched_cost(s), 2) ELSE CDiv(dual_cost(s), 2)

\* The seeding of the phase from every unmatched row.
Seed ==
  /\ pc = "seed"
  /\ LET s == seed(St, 0)
     IN /\ label_V' = s.label_V
        /\ slack' = s.slack
        /\ nhbor' = s.nhbor
  /\ iter' = 0
  /\ pc' = "search"
  /\ UNCHANGED << variant, N, input, c, min_col, rv, ru, mate_V, mate_U, parent,
                  alpha, beta, label_U, i, theta, admissibles, av, aexp, out >>

\* The head of one iteration of the search loop: the dual update.  In
\* part_001 the loop is `for ( i = 0; i < N; i++ )`; when its condition
\* fails search() returns without augmenting and the phase is over.
Search ==
  /\ pc = "search"
  /\ IF variant = "part_001" /\ ~ (iter < N)
       THEN /\ pc' = "phase_loop"
            /\ i' = i + 1
            /\ iter' = 0
            /\ UNCHANGED << alpha, beta, theta >>
       ELSE /\ LET s == IF variant = "part_001"
                          THEN update_alpha_beta_001(St)
                          ELSE update_alpha_beta(St)
               IN /\ alpha' = s.alpha
                  /\ beta' = s.beta
                  /\ theta' = s.theta
            /\ pc' = "scan"
            /\ UNCHANGED << i, iter >>
  /\ UNCHANGED << variant, N, input, c, min_col, rv, ru, mate_V, mate_U, nhbor,
                  parent, slack, label_V, label_U, admissibles, av, aexp,
                  out >>

\* The scan of the unlabelled columns.  When it finds an exposed column u
\* the search is over and augment(nhbor[u], u) is called (by search() itself
\* in part_001 and part_002, by hungarian_algorithm() in hungarian.cpp).
Scan ==
  /\ pc = "scan"
  /\ LET r == scan(St, 0, << >>)
     IN /\ slack' = r.slack
        /\ IF r.found # -1
             THEN /\ av' = nhbor[r.found]
                  /\ aexp' = r.found
                  /\ admissibles' = << >>
                  /\ pc' = "augment"
             ELSE /\ admissibles' = r.admissibles
                  /\ pc' = "label"
                  /\ UNCHANGED << av, aexp >>
  /\ theta' = 0
  /\ UNCHANGED << variant, N, input, c, min_col, rv, ru, mate_V, mate_U, nhbor,
                  parent, alpha, beta, label_V, label_U, i, iter, out >>

\* One iteration of the loop over the admissibles; after the last one the
\* next iteration of the search loop begins.
Label ==
  /\ pc = "label"
  /\ IF admissibles # << >>
       THEN LET s == label_admissible(St, Head(admissibles))
            IN /\ label_U' = s.label_U
               /\ label_V' = s.label_V
               /\ parent' = s.parent
               /\ slack' = s.slack
               /\ nhbor' = s.nhbor
               /\ admissibles' = Tail(admissibles)
       ELSE UNCHANGED << label_U, label_V, parent, slack, nhbor, admissibles >>
  /\ IF Len(admissibles) <= 1
       THEN /\ pc' = "search"
            /\ iter' = IF iter < N THEN iter + 1 ELSE iter
       ELSE /\ pc' = pc
            /\ iter' = iter
  /\ UNCHANGED << variant, N, input, c, min_col, rv, ru, mate_V, mate_U, alpha,
                  beta, i, theta, av, aexp, out >>

\* One call of augment(v, exposed_u).  An index outside 0..N-1 is an access
\* outside the vector: undefined behaviour, after which nothing is known.
Augment ==
  /\ pc = "augment"
  /\ IF av \in Idx(N) /\ aexp \in Idx(N)
       THEN /\ mate_V' = augment_mate_V(St, av, aexp)
            /\ mate_U' = augment_mate_U(St, av, aexp)
            /\ IF parent[av] # -1
                 THEN /\ av' = parent[av]
                      /\ aexp' = augment_aux(St, av, aexp)
                      /\ pc' = pc
                      /\ i' = i
                 ELSE /\ av' = -1
                      /\ aexp' = -1
                      /\ pc' = "phase_loop"
                      /\ i' = i + 1
       ELSE /\ pc' = "undefined"
            /\ UNCHANGED << mate_V, mate_U, av, aexp, i >>
  /\ UNCHANGED << variant, N, input, c, min_col, rv, ru, nhbor, parent, alpha,
                  beta, slack, label_V, label_U, iter, theta, admissibles,
                  out >>

\* The output of main.  hungarian.cpp and part_002 print the assignment
\* under -m / --match and the cost computed from the duals otherwise;
\* part_001 prints the cost computed from the matched entries, and reads
\* c[v][-1] (undefined behaviour) if a row is unmatched.
Output ==
  /\ pc = "output"
  /\ IF variant = "part_001"
       THEN IF \A v \in Idx(N) : mate_V[v] \in Idx(N)
              THEN /\ out' = [mode |-> "cost", value |-> CDiv(matched_cost(St), 2)]
                   /\ pc' = "done"
              ELSE /\ out' = out
                   /\ pc' = "undefined"
       ELSE /\ \E match \in BOOLEAN :
                 out' = IF match
                          THEN [mode |-> "match", value |-> mate_V]
                          ELSE [mode |-> "cost", value |-> CDiv(dual_cost(St), 2)]
            /\ pc' = "done"
  /\ UNCHANGED << variant, N, input, c, min_col, rv, ru, mate_V, mate_U, nhbor,
                  parent, alpha, beta, slack, label_V, label_U, i, iter,
                  theta, admissibles, av, aexp >>

Next ==
  \/ ReadN
  \/ ReadEntry
  \/ InitializeAlphaBeta
  \/ PhaseLoop
  \/ Seed
  \/ Search
  \/ Scan
  \/ Label
  \/ Augment
  \/ Output

Spec == Init /\ [][Next]_vars

\* The program is sequential and never waits: while a statement remains, the
\* next one is executed.
FairSpec == Spec /\ WF_vars(Next)

\* ------------------------------------------------------------ properties
\* The N phases are over: the phase loop has ended or is about to.
AfterPhases == pc \in {"output", "done"} \/ (pc = "phase_loop" /\ i >= N)

\* A phase has just ended (or all of them have).
PhaseEnd == (pc = "phase_loop" /\ i >= 1) \/ pc \in {"output", "done"}

\* The state is one of seeding or search.
InSearch == pc \in {"seed", "search", "scan", "label"}

MatchedRows == {v \in DOMAIN mate_V : mate_V[v] # -1}

\* The least element of a non-empty set of integers.
SetMin(S) == CHOOSE x \in S : \A y \in S : x <= y

\* The greatest element of a non-empty set of integers.
SetMax(S) == CHOOSE x \in S : \A y \in S : y <= x

\* The cost of the cheapest way to give the rows v..n-1 of m distinct
\* columns outside `used`: the minimum over all permutations, by
\* exhaustion.
RECURSIVE BestFrom(_, _, _, _)
BestFrom(m, n, v, used) ==
  IF v >= n THEN 0
  ELSE SetMin({m[v][u] + BestFrom(m, n, v + 1, used \cup {u}) : u \in Idx(n) \ used})

\* The cost of the assignment p in the matrix m.
AssignmentCost(m, p, n) == SumTo([v \in Idx(n) |-> m[v][p[v]]], n)

\* What C1 states of a finished run, with `fixture` the value claimed for
\* the textbook matrix: the cost computed from the duals,
\* (sum alpha + sum beta)/2, which is what cost mode prints, is the minimum
\* over all permutations of the sum of the input costs, the final mate_V
\* attains that minimum, and on the textbook matrix the value is `fixture`.
OptimalCost(fixture) ==
  pc = "done" =>
    LET best == BestFrom(input, N, 0, {})
    IN /\ CDiv(dual_cost(St), 2) = best
       /\ (out.mode = "cost" => out.value = best)
       /\ \A v \in Idx(N) : mate_V[v] \in Idx(N)
       /\ AssignmentCost(input, mate_V, N) = best
       /\ (N = TextbookN /\ out.mode = "cost" => out.value = fixture)

\* C1 (as amended): when the run is over, the cost printed in cost mode,
\* (sum alpha + sum beta)/2, is the minimum over all permutations of the sum
\* of the input costs and the final mate_V attains it; on the 5x5 textbook
\* matrix the value is 15.
C1_OptimalCost == OptimalCost(15)

\* C1 (as claimed): the same, with the value 12 on the textbook matrix.
C1_AsClaimed == OptimalCost(12)

C1_Witness ==
  /\ pc = "done" /\ variant = "hungarian"
  /\ N = TextbookN /\ out.mode = "cost" /\ out.value = 15

\* C2: after the N phases mate_V is a bijection from the rows onto the
\* columns (no -1, no column twice) and mate_U is its inverse.
C2_Bijection ==
  AfterPhases =>
    /\ \A v \in Idx(N) : mate_V[v] \in Idx(N)
    /\ \A v, w \in Idx(N) : v # w => mate_V[v] # mate_V[w]
    /\ \A u \in Idx(N) : mate_U[u] \in Idx(N)
    /\ \A v \in Idx(N) : mate_U[mate_V[v]] = v
    /\ \A u \in Idx(N) : mate_V[mate_U[u]] = u

C2_Witness ==
  /\ pc = "done" /\ N = 3
  /\ mate_V[0] # 0 /\ mate_V[1] # 1 /\ mate_V[2] # 2

\* C3: after the N phases the sum of the stored (doubled) costs along the
\* matching equals sum alpha + sum beta, that sum is even, and its half is
\* the sum of the input costs along the matching: the cost printed from the
\* duals and the cost printed from the matched entries are the same number.
C3_StrongDuality ==
  AfterPhases =>
    /\ \A v \in Idx(N) : mate_V[v] \in Idx(N)
    /\ matched_cost(St) = dual_cost(St)
    /\ dual_cost(St) % 2 = 0
    /\ CDiv(dual_cost(St), 2) = AssignmentCost(input, mate_V, N)
    /\ CDiv(dual_cost(St), 2) = CDiv(matched_cost(St), 2)

C3_Witness ==
  /\ pc = "output" /\ dual_cost(St) > 0
  /\ \E v \in Idx(N) : alpha[v] % 2 = 1

\* alpha[v] + beta[u] <= c[v][u] for every row v and column u.
DualFeasible == \A v \in Idx(N) : \A u \in Idx(N) : alpha[v] + beta[u] <= c[v][u]

\* C4: from initialize_alpha_beta() on, in every state (before and after
\* every dual update, at the end of every phase) the potentials are feasible
\* for the stored (doubled) costs.
C4_DualFeasibility ==
  pc \notin {"main", "read_input", "initialize_alpha_beta"} => DualFeasible

C4_Witness == pc = "scan" /\ theta > 0 /\ \E v \in Idx(N) : alpha[v] < 0

\* C5: at the end of every phase every matched edge is tight for the stored
\* (doubled) costs.
C5_MatchedTight ==
  PhaseEnd =>
    \A v \in Idx(N) :
      mate_V[v] # -1 => alpha[v] + beta[mate_V[v]] = c[v][mate_V[v]]

C5_Witness ==
  /\ pc = "phase_loop" /\ i >= 2 /\ i < N
  /\ \E v \in Idx(N) : mate_V[v] # -1 /\ alpha[v] > 0 /\ beta[mate_V[v]] < c[v][mate_V[v]]

MatchedCols == {u \in DOMAIN mate_U : mate_U[u] # -1}

\* C6: the number of matched rows (and of matched columns) is the phase
\* index: i from the start of phase i until its augmentation, i+1 (the next
\* index) when the phase has ended, N when all phases have; and no step ever
\* turns a matched row into an unmatched one, so a row matched at the end of
\* a phase is matched at the end of every later phase.
C6_MatchedCount ==
  /\ [](/\ (pc = "phase_loop" \/ InSearch) =>
              (Cardinality(MatchedRows) = i /\ Cardinality(MatchedCols) = i)
        /\ pc \in {"output", "done"} =>
              (Cardinality(MatchedRows) = N /\ Cardinality(MatchedCols) = N))
  /\ [][\A v \in DOMAIN mate_V :
          mate_V[v] # -1 => (v \in DOMAIN mate_V' /\ mate_V'[v] # -1)]_vars

\* A row that is already matched is about to be given another column.
C6_Witness ==
  /\ pc = "augment" /\ av \in Idx(N) /\ aexp \in Idx(N)
  /\ mate_V[av] # -1 /\ mate_V[av] # aexp
  /\ Cardinality(MatchedRows) = i /\ i >= 1

\* C7: during seeding and search, and whenever augment() has returned, the
\* two matching arrays agree: mate_V[v] = u iff mate_U[u] = v.
C7_MatesAgree ==
  (pc = "phase_loop" \/ InSearch \/ pc \in {"output", "done"}) =>
    \A v \in Idx(N) : \A u \in Idx(N) : (mate_V[v] = u) <=> (mate_U[u] = v)

C7_Witness ==
  /\ pc = "label" /\ Cardinality(MatchedRows) >= 2
  /\ \E v \in Idx(N) : mate_V[v] # -1 /\ mate_V[v] # v

\* The number of parent links from row v to a root, counted up to fuel.
RECURSIVE ChainLen(_, _)
ChainLen(v, fuel) ==
  IF fuel <= 0 \/ v \notin DOMAIN parent THEN 0
  ELSE IF parent[v] = -1 THEN 0
  ELSE 1 + ChainLen(parent[v], fuel - 1)

Unlabelled == Cardinality({u \in DOMAIN label_U : ~ label_U[u]})

\* A bound, for a matrix of size n, on the steps of one phase.
PhaseWeight(n) == 4 * n + 8

\* A bound on the steps a run on a matrix of size n has left after `cin >> N`.
RunWeight(n) == n * PhaseWeight(n) + 3 + n * n

\* A bound on the steps the run has left: the measure of the termination
\* argument.  Within a phase it counts the unlabelled columns (three steps
\* of the search loop for each) and, during augment(), the parent links
\* left to walk.
StepsLeft ==
  LET after == (N - i - 1) * PhaseWeight(N) + 3
  IN CASE pc = "main" -> 1 + SetMax({RunWeight(n) : n \in Sizes})
       [] pc = "read_input" -> N * PhaseWeight(N) + 3 + (N * N - (rv * N + ru))
       [] pc = "initialize_alpha_beta" -> N * PhaseWeight(N) + 3
       [] pc = "phase_loop" -> (N - i) * PhaseWeight(N) + 2
       [] pc = "seed" -> (N - i) * PhaseWeight(N) + 1
       [] pc = "search" -> after + (N + 1) + 3 * Unlabelled + 2
       [] pc = "scan" -> after + (N + 1) + 3 * Unlabelled + 1
       [] pc = "label" -> after + (N + 1) + 3 * Unlabelled
       [] pc = "augment" -> after + ChainLen(av, N)
       [] pc = "output" -> 1
       [] OTHER -> 0

\* C8: every phase terminates.  Whenever the search loop runs it is in an
\* iteration number iter < N; an iteration that does not return has at
\* least one column to label, each one unlabelled and matched to an
\* unlabelled row; a search leaves its loop head only into an iteration
\* (the loop bounded by `for i < N` never runs out); the run never reaches
\* undefined behaviour; every step of the run strictly decreases the
\* non-negative bound StepsLeft, so the run ends, and it ends only at the
\* output, with exactly N phases completed.
C8_Terminates ==
  /\ [](/\ pc \in {"search", "scan", "label"} => iter < N
        /\ pc = "label" =>
             /\ admissibles # << >>
             /\ \A k \in 1 .. Len(admissibles) :
                  /\ ~ label_U[admissibles[k]]
                  /\ mate_U[admissibles[k]] # -1
                  /\ ~ label_V[mate_U[admissibles[k]]]
        /\ pc \in {"output", "done"} => i = N
        /\ pc # "undefined"
        /\ StepsLeft >= 0
        /\ StepsLeft = 0 => pc = "done")
  /\ [][pc = "search" => pc' = "scan"]_vars
  /\ [][StepsLeft' < StepsLeft]_vars

\* Termination in its liveness form, for FairSpec.
EventuallyDone == <>(pc = "done")

\* The search loop is in its N-th iteration: the bound is reached.
C8_Witness == pc = "scan" /\ N >= 3 /\ iter = N - 1

\* C9 (as claimed): after every phase the potentials are feasible for the
\* costs as given in the input.
C9_AsClaimed ==
  PhaseEnd =>
    \A v \in Idx(N) : \A u \in Idx(N) : alpha[v] + beta[u] <= input[v][u]

\* C9 (as amended): after every phase alpha[v] + beta[u] is at most twice
\* the cost of (v,u) as given in the input.
C9_FeasibleForTwiceInput ==
  PhaseEnd =>
    \A v \in Idx(N) : \A u \in Idx(N) : alpha[v] + beta[u] <= 2 * input[v][u]

\* A phase has ended with a pair whose potentials exceed the input cost.
C9_Witness ==
  /\ PhaseEnd
  /\ \E v \in Idx(N) : \E u \in Idx(N) :
       /\ input[v][u] > 0
       /\ alpha[v] + beta[u] > input[v][u]
       /\ alpha[v] # 0

\* C10: with N = 0 the run goes from the reading of N through
\* initialize_alpha_beta() and the phase loop's first test straight to the
\* output: no phase (no seeding, search or augment), i stays 0, mate_V and
\* mate_U are empty, and what is printed is the cost 0 (or, in match mode,
\* nothing but the empty assignment).
C10_EmptyInput ==
  (N = 0 /\ pc # "main") =>
    /\ pc \in {"initialize_alpha_beta", "phase_loop", "output", "done"}
    /\ i = 0
    /\ DOMAIN mate_V = {} /\ DOMAIN mate_U = {}
    /\ pc = "done" => /\ out.mode \in {"cost", "match"}
                      /\ out.mode = "cost" => out.value = 0
                      /\ out.mode = "match" => DOMAIN out.value = {}

C10_Witness == pc = "done" /\ N = 0 /\ out.mode = "cost" /\ out.value = 0

\* The step is a dual update that shifts the potentials: the search loop's
\* call of update_alpha_beta() returning theta > 0.
DualUpdate == pc = "search" /\ pc' = "scan" /\ theta' > 0

\* The beta half of C11: theta is subtracted from beta[u] for every labelled
\* column u and added for every unlabelled one.
BetaShifted ==
  \A u \in Idx(N) :
    beta'[u] = IF label_U[u] THEN beta[u] - theta' ELSE beta[u] + theta'

\* C11 (as amended): a dual update with theta > 0 adds theta to alpha[v] for
\* every labelled row v and subtracts it for every unlabelled row v; it
\* subtracts theta from beta[u] for every labelled column u and adds it for
\* every unlabelled column u.
C11_DualShift ==
  [][DualUpdate =>
       /\ \A v \in Idx(N) :
            alpha'[v] = IF label_V[v] THEN alpha[v] + theta' ELSE alpha[v] - theta'
       /\ BetaShifted]_vars

\* C11 (as claimed): theta is added to alpha[v] for every unlabelled row and
\* subtracted for every labelled row; beta as above.
C11_AsClaimed ==
  [][DualUpdate =>
       /\ \A v \in Idx(N) :
            alpha'[v] = IF label_V[v] THEN alpha[v] - theta' ELSE alpha[v] + theta'
       /\ BetaShifted]_vars

\* A dual update with theta > 0 has just been applied with rows and columns
\* of both kinds present.
C11_Witness ==
  /\ pc = "scan" /\ theta > 0
  /\ \E v \in Idx(N) : label_V[v]
  /\ \E v \in Idx(N) : ~ label_V[v]
  /\ \E u \in Idx(N) : label_U[u]
  /\ \E u \in Idx(N) : ~ label_U[u]

\* The potentials exist: initialize_alpha_beta() has run.
Initialized == pc \notin {"main", "read_input", "initialize_alpha_beta"}

\* update_alpha_beta() is about to be called.
AtDualUpdate == pc = "search" /\ ~ (variant = "part_001" /\ ~ (iter < N))

\* C12: every reduced cost c[v][u] - alpha[v] - beta[u] of the stored
\* (doubled) costs is even in every state; at every dual update the minimum
\* slack over the unlabelled columns is even, so the theta returned is
\* exactly half of it; and once slack[u] -= 2*theta has been applied the
\* slacks of the unlabelled columns are non-negative and the columns found
\* admissible, and the exposed column returned, have slack exactly 0.
C12_EvenSlack ==
  /\ Initialized =>
       \A v \in Idx(N) : \A u \in Idx(N) : Bound(St, v, u) % 2 = 0
  /\ AtDualUpdate => MinSlack(St, 0, LLMax) % 2 = 0
  /\ pc = "scan" => 2 * theta = MinSlack(St, 0, LLMax)
  /\ pc = "label" =>
       /\ \E u \in Idx(N) : unlabelled_U(St, u) /\ slack[u] = 0
       /\ \A u \in Idx(N) : unlabelled_U(St, u) => slack[u] >= 0
       /\ \A k \in 1 .. Len(admissibles) : slack[admissibles[k]] = 0
  /\ (pc = "augment" /\ aexp \in Idx(N)) => slack[aexp] = 0

\* A dual update has returned an odd theta: half of a minimum slack that is
\* even but not a multiple of four.
C12_Witness ==
  /\ pc = "scan" /\ theta % 2 = 1
  /\ MinSlack(St, 0, LLMax) = 2 * theta
  /\ \E v \in Idx(N) : alpha[v] % 2 = 1

\* The columns u for which update_slack(v), called in state s, evaluates
\* bound = c[v][u]-alpha[v]-beta[u] and finds it negative: the candidates
\* the guard `0LL <= bound` skips.
skipped(s, v) == {u \in Idx(s.N) : unlabelled_U(s, u) /\ Bound(s, v, u) < 0}

\* C13: no evaluation of bound inside update_slack(v) is negative.  In the
\* seeding loop update_slack(v) is called for every unmatched row v, with no
\* column labelled; in the search loop it is called for the mate of each
\* admissible column, just after that column and that row were labelled.
C13_BoundNonNegative ==
  /\ pc = "seed" =>
       \A v \in Idx(N) : unmatched_V(St, v) => skipped(St, v) = {}
  /\ (pc = "label" /\ admissibles # << >>) =>
       LET u == Head(admissibles)
       IN /\ mate_U[u] \in Idx(N)
          /\ skipped([St EXCEPT !.label_U[u] = TRUE], mate_U[u]) = {}

\* update_slack(v) is about to be called in the search loop, with potentials
\* that have moved, for a row that has both a tight and a non-tight edge to
\* the unlabelled columns.
C13_Witness ==
  /\ pc = "label" /\ admissibles # << >>
  /\ alpha[mate_U[Head(admissibles)]] # 0
  /\ \E u \in Idx(N) :
       /\ ~ label_U[u] /\ u # Head(admissibles)
       /\ Bound(St, mate_U[Head(admissibles)], u) > 0
  /\ \E u \in Idx(N) :
       /\ ~ label_U[u] /\ u # Head(admissibles)
       /\ Bound(St, mate_U[Head(admissibles)], u) = 0

\* C14: at the start of every iteration of the search loop (after the
\* seeding and after each round of label propagation) some row is labelled
\* and, for every unlabelled column u, nhbor[u] is a labelled row, the
\* reduced cost of (nhbor[u], u) is slack[u], and no labelled row has a
\* smaller reduced cost to u: slack[u] is the minimum over the labelled rows
\* and nhbor[u] attains it.
C14_SlackIsMinimum ==
  AtDualUpdate =>
    /\ \E v \in Idx(N) : label_V[v]
    /\ \A u \in Idx(N) :
         unlabelled_U(St, u) =>
           /\ nhbor[u] \in Idx(N)
           /\ label_V[nhbor[u]]
           /\ Bound(St, nhbor[u], u) = slack[u]
           /\ \A v \in Idx(N) : label_V[v] => slack[u] <= Bound(St, v, u)

\* An iteration after a round of label propagation starts with a column
\* whose minimum is positive and attained by a row that the propagation
\* labelled, and another whose minimum is attained by a root.
C14_Witness ==
  /\ pc = "search" /\ iter >= 1
  /\ \E u \in Idx(N) :
       /\ ~ label_U[u] /\ slack[u] > 0
       /\ nhbor[u] \in Idx(N) /\ parent[nhbor[u]] # -1
  /\ \E u \in Idx(N) :
       /\ ~ label_U[u]
       /\ nhbor[u] \in Idx(N) /\ parent[nhbor[u]] = -1

\* C15: whenever update_alpha_beta() is called some column is unlabelled
\* and every unlabelled column has a slack below the sentinel, so the
\* minimum it computes is below the sentinel; the theta it returns is below
\* half the sentinel, and the slacks it is then subtracted from are not the
\* sentinel either.
C15_ThetaFinite ==
  /\ AtDualUpdate =>
       /\ \E u \in Idx(N) : unlabelled_U(St, u)
       /\ \A u \in Idx(N) : unlabelled_U(St, u) => slack[u] < LLMax
       /\ MinSlack(St, 0, LLMax) < LLMax
  /\ pc = "scan" =>
       /\ theta >= 0 /\ theta < CDiv(LLMax, 2)
       /\ \A u \in Idx(N) : unlabelled_U(St, u) => slack[u] < LLMax

\* update_alpha_beta() is about to be called with some columns labelled,
\* whose slack the later seeding never touched, and several unlabelled.
C15_Witness ==
  /\ pc = "search" /\ iter >= 1
  /\ \E u \in Idx(N) : label_U[u]
  /\ Unlabelled >= 2
  /\ \E u \in Idx(N) : ~ label_U[u] /\ slack[u] > 0

\* What variant w has in alpha, beta, mate_V and mate_U at the end of its
\* phase k on the input of this run.
PhaseResult(w, k) ==
  LET e == phases(w, initialize_alpha_beta(St, min_col), k)
  IN << e.alpha, e.beta, e.mate_V, e.mate_U >>

\* C16: the three variants are equivalent.  At the end of every phase (and
\* before the first) alpha, beta, mate_V and mate_U of the running variant
\* are what each of the three variants has at the end of that phase on the
\* same input, and the cost printed at the end is the cost each of the
\* three prints.
C16_VariantsAgree ==
  [](/\ pc = "phase_loop" =>
          \A w \in Variants : PhaseResult(w, i) = << alpha, beta, mate_V, mate_U >>
     /\ (pc = "done" /\ out.mode = "cost") =>
          \A w \in Variants : out.value = printed_cost(w, St))

\* Two phases of one variant are over, with a dual update behind them, and
\* the other variants are at the same point.
C16_Witness ==
  /\ pc = "phase_loop" /\ i >= 2 /\ variant = "part_001"
  /\ \E v \in Idx(N) : alpha[v] # 0
  /\ PhaseResult("hungarian", i) = << alpha, beta, mate_V, mate_U >>
  /\ PhaseResult("part_002", i) = << alpha, beta, mate_V, mate_U >>

\* The rows augment() visits from row v on, following parent, at most fuel
\* of them.
RECURSIVE Walk(_, _)
Walk(v, fuel) ==
  IF fuel <= 0 \/ v \notin Idx(N) THEN << >>
  ELSE IF parent[v] = -1 THEN << v >>
  ELSE << v >> \o Walk(parent[v], fuel - 1)

\* C17: in every call augment(v, exposed) the edge (v, exposed) it writes is
\* tight for the stored (doubled) costs; the walk over the parent pointers
\* from v visits no row twice and ends at a row with parent -1 that is
\* still unmatched, as it was when the phase started (the matching does not
\* change during seeding and search), the rows before it being matched; and
\* the only row that ever changes from unmatched to matched is that last
\* row of a walk, the only column the exposed column the search returned.
C17_AugmentingPath ==
  /\ [](pc = "augment" =>
          /\ av \in Idx(N) /\ aexp \in Idx(N)
          /\ Bound(St, av, aexp) = 0
          /\ LET p == Walk(av, N + 1)
             IN /\ Len(p) >= 1 /\ Len(p) <= N
                /\ \A j, k \in 1 .. Len(p) : j # k => p[j] # p[k]
                /\ parent[p[Len(p)]] = -1
                /\ mate_V[p[Len(p)]] = -1
                /\ \A k \in 1 .. Len(p) - 1 : mate_V[p[k]] # -1)
  /\ [][InSearch => UNCHANGED << mate_V, mate_U >>]_vars
  /\ [][Initialized =>
          /\ \A v \in Idx(N) :
               (mate_V[v] = -1 /\ mate_V'[v] # -1) =>
                 (pc = "augment" /\ v = av /\ parent[v] = -1)
          /\ \A u \in Idx(N) :
               (mate_U[u] = -1 /\ mate_U'[u] # -1) =>
                 (pc = "augment" /\ u = aexp /\ av = nhbor[u]
                    /\ unlabelled_U(St, u))]_vars

\* augment() is about to write the first edge of a path of three rows.
C17_Witness ==
  /\ pc = "augment" /\ av \in Idx(N) /\ aexp \in Idx(N)
  /\ mate_U[aexp] = -1
  /\ Len(Walk(av, N + 1)) >= 3

\* C18: in every state of the search loop (before the dual update, before
\* the scan, and before and after each iteration of the loop over the
\* admissibles) a matched row and its column are labelled together, the
\* labelled rows are exactly the unmatched rows (the roots, unmatched since
\* the phase started) and the mates of the labelled columns, and no
\* unmatched column is labelled.
C18_LabelledTogether ==
  pc \in {"search", "scan", "label"} =>
    /\ \A v \in Idx(N) :
         mate_V[v] # -1 => (mate_V[v] \in Idx(N) /\ label_V[v] = label_U[mate_V[v]])
    /\ \A v \in Idx(N) :
         label_V[v] <=>
           (mate_V[v] = -1 \/ \E u \in Idx(N) : label_U[u] /\ mate_U[u] = v)
    /\ \A u \in Idx(N) : label_U[u] => mate_U[u] # -1

\* The search loop has labelled one matched pair and left another one
\* unlabelled.
C18_Witness ==
  /\ pc \in {"search", "label"}
  /\ \E v \in Idx(N) : mate_V[v] # -1 /\ label_V[v] /\ label_U[mate_V[v]]
  /\ \E v \in Idx(N) : mate_V[v] # -1 /\ ~ label_V[v] /\ ~ label_U[mate_V[v]]

\* C19: every index used during augmentation is valid.  In every call
\* augment(v, exposed), the first one augment(nhbor[u], u) for the column u
\* the search returned included, v and exposed are in 0..N-1; when
\* parent[v] is not -1 it is in 0..N-1 and so is the old mate mate_V[v]
\* handed on as the next exposed column; and the run never gets to an
\* access outside a vector.
C19_ValidIndices ==
  /\ pc = "augment" =>
       /\ av \in Idx(N) /\ aexp \in Idx(N)
       /\ parent[av] # -1 => (parent[av] \in Idx(N) /\ mate_V[av] \in Idx(N))
  /\ pc = "scan" =>
       LET r == scan(St, 0, << >>)
       IN r.found # -1 => (r.found \in Idx(N) /\ nhbor[r.found] \in Idx(N))
  /\ pc # "undefined"

\* The first call of augment(), for the column the search returned, with a
\* recursive call to follow.
C19_Witness ==
  /\ pc = "augment" /\ av \in Idx(N) /\ aexp \in Idx(N)
  /\ nhbor[aexp] = av /\ mate_U[aexp] = -1
  /\ parent[av] \in Idx(N) /\ mate_V[av] \in Idx(N)

====
